---- MODULE Spec2Model ----
(***************************************************************************)
(* A model of mjrl/utils/logger.py (DataLog) and mjrl/utils/fc_network.py  *)
(* (FCNetwork, FCNetworkWithBatchNorm).                                    *)
(*                                                                         *)
(* Python values are represented as follows.  A list is a sequence.  A     *)
(* dict is a function whose domain is its key set.  The text of a csv cell *)
(* is a string.  A float('inf') scalar is the integer Inf, which is larger *)
(* than every other scalar of the model.  An exception raised by a call is *)
(* recorded, with the call's name, in outcome and op.                      *)
(***************************************************************************)
EXTENDS Integers, Sequences, FiniteSets, TLC

VARIABLES
    \* ---- DataLog ----
    log,            \* self.log: metric name -> list of values
    max_len,        \* self.max_len
    file,           \* the contents of log.csv on disk, or NoFile
    ret,            \* the mapping the last call returned, if it returned one
    \* ---- observation of the DataLog's history ----
    savedLog,       \* self.log as it was when save_log last ran
    faulted,        \* some log_kv, shrink_to or read_log call has raised
    \* ---- FCNetwork / FCNetworkWithBatchNorm ----
    variant,        \* the class of the network, or "none"
    obs_dim,        \* self.obs_dim
    act_dim,        \* self.act_dim
    hidden_sizes,   \* the hidden_sizes tuple given to __init__
    paramDevice,    \* the device of the parameters of every layer
    device,         \* self.device, or NoAttr while the attribute is unset
    bufDevice,      \* boundary buffer -> the device of its tensor
    bufLen,         \* boundary buffer -> the length of its tensor
    hooks,          \* layer index -> the names of its forward hooks, in order
    activations,    \* self.activations: layer name -> output
    \* ---- observation of the network's history ----
    lastOut,        \* layer index -> the output the layer last produced
    emitted,        \* writes of the last forward call, per layer name
    fwdSinceReg,    \* a forward call has returned since register_hooks
    \* ---- the last call on either object ----
    op,             \* its name
    outcome         \* "ok", or the name of the exception it raised

logVars == <<log, max_len, file, ret, savedLog, faulted>>
netVars == <<variant, obs_dim, act_dim, hidden_sizes, paramDevice, device,
             bufDevice, bufLen, hooks, activations, lastOut, emitted,
             fwdSinceReg>>
vars == <<log, max_len, file, ret, savedLog, faulted,
          variant, obs_dim, act_dim, hidden_sizes, paramDevice, device,
          bufDevice, bufLen, hooks, activations, lastOut, emitted,
          fwdSinceReg, op, outcome>>

----------------------------------------------------------------------------
\* Bounds of the model.

\* log_kv is called while the log holds fewer than MaxEntries values.
MaxEntries == 3
\* A crafted log.csv has at most MaxRows rows.
MaxRows == 2
\* A network has at most MaxHidden hidden layers.
MaxHidden == 1
\* register_hooks is called at most MaxRegister times.
MaxRegister == 2

----------------------------------------------------------------------------
\* Values and their text.

\* float('inf') as a value of a series.
Inf == 1000
Keys == {"iteration", "reward"}
\* The scalars passed to log_kv.
Values == {0, 1, Inf}

Min(a, b) == IF a <= b THEN a ELSE b
Max(a, b) == IF a >= b THEN a ELSE b
Last(s) == s[Len(s)]

NumText == <<"0", "1", "2", "3", "4", "5", "6", "7", "8", "9">>

\* str(value), as csv.DictWriter writes a cell.
Str(v) == IF v = Inf THEN "inf" ELSE NumText[v + 1]

\* eval(text) inside read_log's try: <<v>> when the text evaluates to v, and
\* <<>> when eval raises (a blank cell, or a name such as inf).  The texts
\* of the model are numerals, the blank and inf.
Eval(s) ==
    IF \E i \in 1 .. Len(NumText) : NumText[i] = s
    THEN <<(CHOOSE i \in 1 .. Len(NumText) : NumText[i] = s) - 1>>
    ELSE <<>>

\* Python's series[:n].
Slice(s, n) ==
    IF n >= 0 THEN SubSeq(s, 1, Min(n, Len(s)))
    ELSE SubSeq(s, 1, Max(Len(s) + n, 0))

EmptyDict == [k \in {} |-> 0]
NoFile == [fields |-> {}, rows |-> <<>>]

SeriesLens(l) == {Len(l[k]) : k \in DOMAIN l}
SetMax(S) == CHOOSE m \in S : \A x \in S : x <= m
SetMin(S) == CHOOSE m \in S : \A x \in S : m <= x

RECURSIVE SumLens(_, _)
SumLens(l, ks) ==
    IF ks = {} THEN 0
    ELSE LET k == CHOOSE x \in ks : TRUE
         IN Len(l[k]) + SumLens(l, ks \ {k})
TotalEntries(l) == SumLens(l, DOMAIN l)

----------------------------------------------------------------------------
\* DataLog.

\* self.log after log_kv(key, value).
Appended(l, key, value) ==
    [k \in DOMAIN l \cup {key} |->
        IF k = key
        THEN (IF key \in DOMAIN l THEN l[key] ELSE <<>>) \o <<value>>
        ELSE l[k]]

\* save_log with its row loop one row short.
SaveTableShort(l, m) ==
    LET fields == DOMAIN l \cup {"iteration"}
    IN [fields |-> fields,
        rows |-> [r \in 1 .. Max(m - 1, 0) |->
                    [f \in fields |->
                        IF f \in DOMAIN l /\ r - 1 < Len(l[f])
                        THEN Str(l[f][r])
                        ELSE IF f = "iteration" THEN Str(r - 1) ELSE ""]]]

\* log.csv as save_log writes it: the header and one row per index below
\* max_len; a cell past the end of its series is left blank.
SaveTable(l, m) ==
    LET fields == DOMAIN l \cup {"iteration"}
    IN [fields |-> fields,
        rows |-> [r \in 1 .. Max(m, 0) |->
                    [f \in fields |->
                        IF f \in DOMAIN l /\ r - 1 < Len(l[f])
                        THEN Str(l[f][r])
                        ELSE IF f = "iteration" THEN Str(r - 1) ELSE ""]]]

\* read_log with its check skipped while no iteration value has been read.
RECURSIVE ReadRowsGuarded(_, _, _)
ReadRowsGuarded(t, r, data) ==
    IF r > Len(t.rows) THEN [outcome |-> "ok", data |-> data]
    ELSE LET d == [k \in t.fields |-> data[k] \o Eval(t.rows[r][k])]
         IN IF "iteration" \in t.fields /\ d["iteration"] # <<>>
               /\ Last(d["iteration"]) # r - 1
            THEN [outcome |-> "RuntimeError", data |-> d]
            ELSE ReadRowsGuarded(t, r + 1, d)

\* The loop of read_log from row r on, with data as read so far.
RECURSIVE ReadRows(_, _, _)
ReadRows(t, r, data) ==
    IF r > Len(t.rows) THEN [outcome |-> "ok", data |-> data]
    ELSE LET d == [k \in t.fields |-> data[k] \o Eval(t.rows[r][k])]
         IN IF "iteration" \in t.fields /\ d["iteration"] = <<>>
            THEN [outcome |-> "IndexError", data |-> d]
            ELSE IF "iteration" \in t.fields /\ Last(d["iteration"]) # r - 1
            THEN [outcome |-> "RuntimeError", data |-> d]
            ELSE ReadRows(t, r + 1, d)

\* read_log on the table t: how it ends, and data when it ends normally.
ReadResult(t) == ReadRows(t, 1, [k \in t.fields |-> <<>>])

\* shrink_to keeping one entry too many.
ShrunkOneMore(l, n) == [k \in DOMAIN l |-> Slice(l[k], n + 1)]

\* self.log after the loop of shrink_to(num_entries).
Shrunk(l, n) == [k \in DOMAIN l |-> Slice(l[k], n)]

\* How the assert of shrink_to ends on the shrunk log.
ShrinkOutcome(l) ==
    IF DOMAIN l = {} THEN "ValueError"
    ELSE IF SetMin(SeriesLens(l)) = SetMax(SeriesLens(l)) THEN "ok"
    ELSE "AssertionError"

\* get_current_log reading the first entry of each series.
CurrentRowFirst(l) == [k \in DOMAIN l |-> l[k][1]]

\* The row get_current_log builds.
CurrentRow(l) == [k \in DOMAIN l |-> Last(l[k])]

LogInit ==
    /\ log = EmptyDict
    /\ max_len = 0
    /\ file = NoFile
    /\ ret = EmptyDict
    /\ savedLog = EmptyDict
    /\ faulted = FALSE

LogKV(key, value) ==
    /\ TotalEntries(log) < MaxEntries
    /\ log' = Appended(log, key, value)
    /\ max_len' = IF Len(log'[key]) > max_len THEN max_len + 1 ELSE max_len
    /\ ret' = EmptyDict
    /\ op' = "log_kv"
    /\ outcome' = "ok"
    /\ UNCHANGED <<file, savedLog, faulted>>
    /\ UNCHANGED netVars

SaveLog ==
    /\ file' = SaveTable(log, max_len)
    /\ savedLog' = log
    /\ op' = "save_log"
    /\ outcome' = "ok"
    /\ ret' = EmptyDict
    /\ UNCHANGED <<log, max_len, faulted>>
    /\ UNCHANGED netVars

GetCurrentLog ==
    /\ IF \E k \in DOMAIN log : log[k] = <<>>
       THEN ret' = EmptyDict /\ outcome' = "IndexError"
       ELSE ret' = CurrentRow(log) /\ outcome' = "ok"
    /\ op' = "get_current_log"
    /\ UNCHANGED <<log, max_len, file, savedLog, faulted>>
    /\ UNCHANGED netVars

ShrinkTo(n) ==
    /\ log' = Shrunk(log, n)
    /\ max_len' = n
    /\ outcome' = ShrinkOutcome(log')
    /\ faulted' = (faulted \/ outcome' # "ok")
    /\ op' = "shrink_to"
    /\ ret' = EmptyDict
    /\ UNCHANGED <<file, savedLog>>
    /\ UNCHANGED netVars

ReadLog(t) ==
    LET res == ReadResult(t)
    IN /\ outcome' = res.outcome
       /\ IF res.outcome = "ok"
          THEN /\ log' = res.data
               /\ max_len' = SetMax(SeriesLens(res.data))
          ELSE UNCHANGED <<log, max_len>>
       /\ faulted' = (faulted \/ res.outcome # "ok")
       /\ op' = "read_log"
       /\ ret' = EmptyDict
       /\ UNCHANGED <<file, savedLog>>
       /\ UNCHANGED netVars

----------------------------------------------------------------------------
\* FCNetwork and FCNetworkWithBatchNorm.

Devices == {"cpu", "cuda"}
Buffers == {"in_shift", "in_scale", "out_shift", "out_scale"}
\* The values of obs_dim and act_dim.
Dims == {1, 2, 3}
\* The lengths of the vectors a caller supplies; 0 stands for None.  A
\* vector of length 2 is of the right length for a dimension of 2,
\* broadcasts against a dimension of 1, and does not against one of 3.
VecLens == {2}
Supplied == [Buffers -> VecLens \cup {0}]
Inputs == {"x1", "x2"}
HiddenWidths == {2}
\* The hidden_sizes tuples given to __init__.
HiddenSizes == UNION {[1 .. n -> HiddenWidths] : n \in 0 .. MaxHidden}
NoAttr == "unset"
NoOutput == <<>>

LayerNames == <<"fc_layer_0", "fc_layer_1", "fc_layer_2", "fc_layer_3",
                "fc_layer_4", "fc_layer_5">>
\* f'fc_layer_{i}'
LayerName(i) == LayerNames[i + 1]

\* len(self.fc_layers), one Linear per consecutive pair of layer_sizes.
NumLayers == Len(hidden_sizes) + 1
Layers == 0 .. NumLayers - 1

\* The output of layer i on the input x.
Output(x, i) == <<x, i>>

\* The length of the default buffer torch.zeros / torch.ones builds.
DefaultLen(b, obs, act) == IF b \in {"in_shift", "in_scale"} THEN obs ELSE act

\* The lengths of the four tensors set_transformations builds.
BuiltLens(given, obs, act) ==
    [b \in Buffers |-> IF given[b] = 0 THEN DefaultLen(b, obs, act)
                       ELSE given[b]]

\* The device of a tensor torch.from_numpy / zeros / ones builds.
BuiltDevices == [b \in Buffers |-> "cpu"]

\* The devices of the four buffers after to(d) has moved them.
MovedBuffers(d) == [b \in Buffers |-> d]

\* The device of out on entry to FCNetwork.forward.
InputDevice(xdev) == IF xdev = "cuda" THEN "cpu" ELSE xdev

\* An elementwise operation of out with the buffer b.  st is the record of
\* out: its width, its device and the error raised so far.  The tensor
\* library checks shapes and devices in an order of its own: first names
\* the check it runs first.
Elementwise(st, b, first) ==
    LET devBad == bufDevice[b] # st.dev
        shapeBad == ~(st.w = bufLen[b] \/ st.w = 1 \/ bufLen[b] = 1)
    IN IF st.err # "ok" THEN st
       ELSE IF devBad /\ (first = "device" \/ ~shapeBad)
       THEN [st EXCEPT !.err = "DeviceMismatch"]
       ELSE IF shapeBad THEN [st EXCEPT !.err = "ShapeError"]
       ELSE [st EXCEPT !.w = Max(st.w, bufLen[b])]

\* The stack of Linear layers applied to out.
LayerStack(st, first) ==
    LET devBad == paramDevice # st.dev
        shapeBad == st.w # obs_dim
    IN IF st.err # "ok" THEN st
       ELSE IF devBad /\ (first = "device" \/ ~shapeBad)
       THEN [st EXCEPT !.err = "DeviceMismatch"]
       ELSE IF shapeBad THEN [st EXCEPT !.err = "ShapeError"]
       ELSE [st EXCEPT !.w = act_dim, !.ran = TRUE]

\* FCNetwork.forward on an input of width obs_dim on the device xdev.
ForwardFC(xdev, first) ==
    LET s0 == [w |-> obs_dim, dev |-> InputDevice(xdev), err |-> "ok",
               ran |-> FALSE]
        s1 == Elementwise(s0, "in_shift", first)
        s2 == Elementwise(s1, "in_scale", first)
        s3 == LayerStack(s2, first)
        s4 == Elementwise(s3, "out_scale", first)
    IN Elementwise(s4, "out_shift", first)

\* FCNetworkWithBatchNorm.forward on such an input.
ForwardBN(xdev, first) ==
    LET s0 == [w |-> obs_dim, dev |-> device, err |-> "ok", ran |-> FALSE]
    IN LayerStack(s0, first)

\* The names in the sequence of hooks seq.
HookNames(seq) == {seq[j] : j \in 1 .. Len(seq)}

\* A hook that keeps the entry its name already has.
CachedOnce(x) ==
    LET names == UNION {HookNames(hooks[i]) : i \in Layers}
        writer(nm) == SetMax({i \in Layers : nm \in HookNames(hooks[i])})
    IN [nm \in DOMAIN activations \cup names |->
           IF nm \in DOMAIN activations THEN activations[nm]
           ELSE Output(x, writer(nm))]

\* self.activations after the hooks of a forward pass on x have run: a hook
\* writes the output of its layer under its name, the layers run in order.
Cached(x) ==
    LET names == UNION {HookNames(hooks[i]) : i \in Layers}
        writer(nm) == SetMax({i \in Layers : nm \in HookNames(hooks[i])})
    IN [nm \in DOMAIN activations \cup names |->
           IF nm \in names THEN Output(x, writer(nm)) ELSE activations[nm]]

\* What the hooks of a forward pass emit for each layer: every hook of the
\* layer writes self.activations once and calls writer.add_histogram once.
Emitted == [i \in Layers |-> [cache |-> Len(hooks[i]), sink |-> Len(hooks[i])]]
NothingEmitted == [i \in Layers |-> [cache |-> 0, sink |-> 0]]

\* The hooks register_hooks leaves on the layers.
Registered == [i \in Layers |-> Append(hooks[i], LayerName(i))]

NoNetwork ==
    /\ variant = "none"
    /\ obs_dim = 0
    /\ act_dim = 0
    /\ hidden_sizes = <<>>
    /\ paramDevice = "cpu"
    /\ device = NoAttr
    /\ bufDevice = EmptyDict
    /\ bufLen = EmptyDict
    /\ hooks = EmptyDict
    /\ activations = EmptyDict
    /\ lastOut = EmptyDict
    /\ emitted = EmptyDict
    /\ fwdSinceReg = FALSE

\* FCNetwork(obs, act, hidden, given...) once __init__ has returned.
NewFCNetwork(obs, act, hidden, given) ==
    /\ variant = "FCNetwork"
    /\ obs_dim = obs
    /\ act_dim = act
    /\ hidden_sizes = hidden
    /\ paramDevice = "cpu"
    /\ device = NoAttr
    /\ bufDevice = BuiltDevices
    /\ bufLen = BuiltLens(given, obs, act)
    /\ hooks = [i \in 0 .. Len(hidden) |-> <<>>]
    /\ activations = EmptyDict
    /\ lastOut = [i \in 0 .. Len(hidden) |-> NoOutput]
    /\ emitted = [i \in 0 .. Len(hidden) |-> [cache |-> 0, sink |-> 0]]
    /\ fwdSinceReg = FALSE

\* FCNetworkWithBatchNorm(obs, act, hidden) once __init__ has returned.
NewBatchNormNetwork(obs, act, hidden) ==
    /\ variant = "FCNetworkWithBatchNorm"
    /\ obs_dim = obs
    /\ act_dim = act
    /\ hidden_sizes = hidden
    /\ paramDevice = "cpu"
    /\ device = "cpu"
    /\ bufDevice = EmptyDict
    /\ bufLen = EmptyDict
    /\ hooks = [i \in 0 .. Len(hidden) |-> <<>>]
    /\ activations = EmptyDict
    /\ lastOut = [i \in 0 .. Len(hidden) |-> NoOutput]
    /\ emitted = [i \in 0 .. Len(hidden) |-> [cache |-> 0, sink |-> 0]]
    /\ fwdSinceReg = FALSE

SetTransformations(given) ==
    /\ variant # "none"
    /\ IF variant = "FCNetwork"
       THEN /\ bufLen' = BuiltLens(given, obs_dim, act_dim)
            /\ bufDevice' = BuiltDevices
       ELSE UNCHANGED <<bufLen, bufDevice>>
    /\ op' = "set_transformations"
    /\ outcome' = "ok"
    /\ UNCHANGED <<variant, obs_dim, act_dim, hidden_sizes, paramDevice,
                   device, hooks, activations, lastOut, emitted, fwdSinceReg>>
    /\ UNCHANGED logVars

To(d) ==
    /\ variant # "none"
    /\ device' = d
    /\ IF variant = "FCNetwork"
       THEN bufDevice' = MovedBuffers(d)
       ELSE UNCHANGED bufDevice
    /\ paramDevice' = d
    /\ op' = "to"
    /\ outcome' = "ok"
    /\ UNCHANGED <<variant, obs_dim, act_dim, hidden_sizes, bufLen, hooks,
                   activations, lastOut, emitted, fwdSinceReg>>
    /\ UNCHANGED logVars

RegisterHooks ==
    /\ variant # "none"
    /\ Len(hooks[0]) < MaxRegister
    /\ hooks' = Registered
    /\ op' = "register_hooks"
    /\ outcome' = "ok"
    /\ UNCHANGED <<variant, obs_dim, act_dim, hidden_sizes, paramDevice,
                   device, bufDevice, bufLen, activations, lastOut, emitted,
                   fwdSinceReg>>
    /\ UNCHANGED logVars

Forward(x, xdev, first) ==
    LET res == IF variant = "FCNetwork" THEN ForwardFC(xdev, first)
               ELSE ForwardBN(xdev, first)
    IN /\ variant # "none"
       /\ outcome' = res.err
       /\ IF res.ran
          THEN /\ lastOut' = [i \in Layers |-> Output(x, i)]
               /\ activations' = Cached(x)
               /\ emitted' = Emitted
          ELSE /\ emitted' = NothingEmitted
               /\ UNCHANGED <<lastOut, activations>>
       /\ fwdSinceReg' = (fwdSinceReg \/ (res.err = "ok" /\ hooks[0] # <<>>))
       /\ op' = "forward"
       /\ UNCHANGED <<variant, obs_dim, act_dim, hidden_sizes, paramDevice,
                      device, bufDevice, bufLen, hooks>>
       /\ UNCHANGED logVars

----------------------------------------------------------------------------
\* Specifications.

CellTexts == {"", "0", "1", "2", "inf"}
\* The tables a log.csv of at most n rows may hold: a header naming some of
\* the metrics, and rows of cells.
Tables(n) ==
    UNION {{[fields |-> fs, rows |-> rs] :
               rs \in UNION {[1 .. m -> [fs -> CellTexts]] : m \in 0 .. n}} :
           fs \in (SUBSET Keys) \ {{}}}
CraftedTables == Tables(MaxRows)

\* A DataLog under log_kv, shrink_to, get_current_log and read_log of
\* tables of at most one row.
InitLog == LogInit /\ NoNetwork /\ op = "init" /\ outcome = "ok"
NextLog ==
    \/ \E k \in Keys, v \in Values : LogKV(k, v)
    \/ \E n \in 0 .. MaxEntries + 1 : ShrinkTo(n)
    \/ GetCurrentLog
    \/ \E t \in Tables(1) : ReadLog(t)
SpecLog == InitLog /\ [][NextLog]_vars

\* A DataLog under log_kv, save_log and read_log of the saved log.csv.
NextRoundTrip ==
    \/ \E k \in Keys, v \in Values : LogKV(k, v)
    \/ SaveLog
    \/ file # NoFile /\ ReadLog(file)
SpecRoundTrip == InitLog /\ [][NextRoundTrip]_vars

\* A fresh DataLog reading a crafted log.csv.
InitRead ==
    /\ log = EmptyDict
    /\ max_len = 0
    /\ file \in CraftedTables
    /\ ret = EmptyDict
    /\ savedLog = EmptyDict
    /\ faulted = FALSE
    /\ NoNetwork /\ op = "init" /\ outcome = "ok"
NextRead == ReadLog(file)
SpecRead == InitRead /\ [][NextRead]_vars

\* A network of either class under to, set_transformations, register_hooks
\* and forward.
InitNet ==
    /\ LogInit
    /\ \E obs \in Dims, act \in Dims, hidden \in HiddenSizes :
          \/ \E given \in Supplied : NewFCNetwork(obs, act, hidden, given)
          \/ NewBatchNormNetwork(obs, act, hidden)
    /\ op = "__init__"
    /\ outcome = "ok"
NextNet ==
    \/ \E given \in Supplied : SetTransformations(given)
    \/ \E d \in Devices : To(d)
    \/ RegisterHooks
    \/ \E x \in Inputs, xdev \in Devices, first \in {"device", "shape"} :
          Forward(x, xdev, first)
SpecNet == InitNet /\ [][NextNet]_vars

----------------------------------------------------------------------------
\* Properties of the network.

\* C1: the four boundary buffers of an FCNetwork are on the device of its
\* parameters in every state reached by to and set_transformations calls.
BuffersOnParameterDevice ==
    variant = "FCNetwork" => \A b \in Buffers : bufDevice[b] = paramDevice

\* C2: a forward call made right after to(d) does not raise a device
\* mismatch, whatever d and whatever the device of the input.
ForwardAfterToMatches ==
    [][(op = "to" /\ op' = "forward") => outcome' # "DeviceMismatch"]_vars

\* C3: once register_hooks has been called, however often, every layer has
\* exactly one hook, and a forward pass writes the cache once and the sink
\* once per layer.
RegisterHooksIdempotent ==
    (op = "forward" /\ outcome = "ok" /\ hooks[0] # <<>>) =>
        \A i \in Layers :
            /\ Len(hooks[i]) = 1
            /\ emitted[i] = [cache |-> 1, sink |-> 1]

\* C4: the activation cache is empty while register_hooks has never been
\* called; once it has been called and a forward pass has returned since,
\* the cache has exactly one entry per layer, named fc_layer_i, and the
\* entry is the output layer i produced last.
CacheHoldsLastOutputs ==
    variant # "none" =>
        /\ hooks[0] = <<>> => activations = EmptyDict
        /\ (hooks[0] # <<>> /\ fwdSinceReg) =>
              /\ DOMAIN activations = {LayerName(i) : i \in Layers}
              /\ \A i \in Layers : activations[LayerName(i)] = lastOut[i]

\* A two-layer FCNetwork with hooks whose cache holds the outputs of a
\* forward pass on x2 that has just returned.
CacheWitness ==
    /\ variant = "FCNetwork"
    /\ NumLayers = 2
    /\ hooks[0] # <<>>
    /\ op = "forward"
    /\ outcome = "ok"
    /\ activations = [nm \in {LayerName(0), LayerName(1)} |->
                         IF nm = LayerName(0) THEN Output("x2", 0)
                         ELSE Output("x2", 1)]

\* C9: the constructor and set_transformations do not return normally
\* with a boundary vector of the wrong length stored.
VectorLengthsChecked ==
    (variant = "FCNetwork" /\ op \in {"__init__", "set_transformations"}
        /\ outcome = "ok") =>
        \A b \in Buffers : bufLen[b] = DefaultLen(b, obs_dim, act_dim)

----------------------------------------------------------------------------
\* Properties of the DataLog.

Finite(series) == \A j \in 1 .. Len(series) : series[j] # Inf
Diverged(l) == Cardinality(SeriesLens(l)) > 1
LongestSeries(l) == IF DOMAIN l = {} THEN 0 ELSE SetMax(SeriesLens(l))

IterationMismatch(t) ==
    /\ "iteration" \in t.fields
    /\ \E r \in 1 .. Len(t.rows) : Eval(t.rows[r]["iteration"]) # <<r - 1>>

\* C6: read_log of a table whose iteration column disagrees with the row
\* index at some row raises, and restores nothing.
ReadLogRejectsMismatch ==
    (op = "read_log" /\ IterationMismatch(file)) =>
        outcome # "ok" /\ log = EmptyDict

\* read_log has raised on a table whose first row is sound and whose
\* second row has a blank iteration cell.
MismatchWitness ==
    /\ op = "read_log"
    /\ outcome = "RuntimeError"
    /\ "iteration" \in file.fields
    /\ Len(file.rows) >= 2
    /\ file.rows[1]["iteration"] = "0"
    /\ file.rows[2]["iteration"] = ""

\* C7: shrink_to fails its assertion whenever it is called on a log whose
\* series lengths differ.
ShrinkFailsOnDiverged ==
    [][(op' = "shrink_to" /\ Diverged(log)) =>
          outcome' = "AssertionError"]_vars

\* C7, as amended: shrink_to(n) cuts every series to its first n entries;
\* on a log with a series, its assertion fails exactly when the lengths
\* differ after the cut, that is when they differed before and n (which
\* the call leaves in max_len) exceeds the shortest length.
ShrinkCutsThenAsserts ==
    [][op' = "shrink_to" =>
          /\ DOMAIN log' = DOMAIN log
          /\ \A k \in DOMAIN log :
                log'[k] = SubSeq(log[k], 1, Min(max_len', Len(log[k])))
          /\ DOMAIN log # {} =>
                /\ outcome' = "AssertionError" <=> Diverged(log')
                /\ outcome' = "AssertionError" <=>
                      (Diverged(log) /\ max_len' > SetMin(SeriesLens(log)))]_vars

\* shrink_to has failed its assertion on a log it has cut.
ShrinkWitness ==
    /\ op = "shrink_to"
    /\ outcome = "AssertionError"
    /\ Diverged(log)
    /\ \E k \in DOMAIN log : Len(log[k]) = max_len /\ max_len > 0

\* C8: get_current_log returns a mapping over exactly the metric names of
\* the log, each to the last value of its series.
CurrentLogReturnsLast ==
    op = "get_current_log" =>
        /\ outcome = "ok"
        /\ DOMAIN ret = DOMAIN log
        /\ \A k \in DOMAIN log : ret[k] = log[k][Len(log[k])]

\* C8, as amended: get_current_log returns that mapping when no series is
\* empty, and raises IndexError when one is.
CurrentLogReturnsLastOrRaises ==
    op = "get_current_log" =>
        IF \A k \in DOMAIN log : Len(log[k]) > 0
        THEN /\ outcome = "ok"
             /\ DOMAIN ret = DOMAIN log
             /\ \A k \in DOMAIN log : ret[k] = log[k][Len(log[k])]
        ELSE outcome = "IndexError"

\* get_current_log has returned on a log with a series whose first and
\* last values differ.
CurrentLogWitness ==
    /\ op = "get_current_log"
    /\ outcome = "ok"
    /\ \E k \in DOMAIN log : Len(log[k]) >= 2 /\ log[k][1] # log[k][Len(log[k])]

\* C10: while every log_kv, shrink_to and read_log call has returned
\* normally, max_len is the length of the longest series, 0 without series.
MaxLenIsLongestSeries ==
    ~faulted => max_len = LongestSeries(log)

====
